---- MODULE Spec2Model ----
(***************************************************************************)
(* Model of the scheduled-payment subsystem of credit-repiar-demo.online:  *)
(* the Stripe webhook handler (WebhookHandlers.processWebhook), the Stripe *)
(* client helpers it verifies events with (stripeClient.ts), the storage   *)
(* gateway it writes through, and the client-side payment sheet.           *)
(*                                                                         *)
(* processWebhook is an async function: it runs synchronously up to its    *)
(* first await, and every `await storage.x(...)` is a suspension point at  *)
(* which other deliveries may run.  Each storage call is one atomic step   *)
(* of the database.                                                        *)
(***************************************************************************)
EXTENDS Integers, Sequences, FiniteSets, TLC

VARIABLES
    env,                \* process.env: which variables are set
    stripe,             \* stripeClient.ts: module-level cached client
    scheduledPayments,  \* storage: scheduled_payments rows, by id
    creditPlans,        \* storage: credit_plans rows, by id
    transactions,       \* storage: transactions rows, in insertion order
    now,                \* wall clock read by `new Date()`
    call,               \* per request slot: the processWebhook invocation
    delivered,          \* number of webhook deliveries received so far
    intents,            \* processor: intents created through the endpoint
    config,             \* client: /api/stripe/config has loaded
    paymentOpen,        \* CreditPlans: paymentOpen
    paymentDetails,     \* CreditPlans: paymentDetails (NoDetails = null)
    clientSecret,       \* PaymentSheet: clientSecret (NoSecret = null)
    isLoading,          \* PaymentSheet: isLoading
    pending,            \* create-payment-intent requests in flight
    form,               \* CheckoutForm: paymentStatus, isProcessing
    submit,             \* the run of handleSubmit in flight
    timer,              \* the setTimeout armed after a successful payment
    isCreateOpen,       \* CreditPlans: isCreateOpen
    planForm,           \* CreditPlans: the values of the create-plan form
    formErrors,         \* CreditPlans: the fields the resolver rejected
    createMutation,     \* CreditPlans: createMutation, with its request
    constructed,        \* stripeClient.ts: how many times new Stripe() ran
    got,                \* the outcomes of the direct calls of getStripeClient
    handled,            \* sessionAuth.ts: the requests isAuthenticated handled
    tour,               \* App.tsx showTour, GuidedTour currentStep, its saves
    chat                \* SupportChat: message, activeSessionId, queries

serverVars == <<env, stripe, constructed, scheduledPayments, creditPlans,
                transactions, now, call, delivered>>

clientVars == <<intents, config, paymentOpen, paymentDetails, clientSecret,
                isLoading, pending, form, submit, timer>>

planVars == <<isCreateOpen, planForm, formErrors, createMutation>>

appVars == <<got, handled, tour, chat>>

vars == <<serverVars, clientVars, planVars, appVars>>

db == <<scheduledPayments, creditPlans, transactions>>

----------------------------------------------------------------------------
(* Bounds *)

MaxDeliveries == 3
MaxTime == 1

Workers == {1, 2}
SerialWorkers == {1}

----------------------------------------------------------------------------
(* JavaScript values *)

\* A metadata key that is not present reads as undefined.
Absent == "<undefined>"

Num(n) == [kind |-> "number", v |-> n]
NaN == [kind |-> "NaN", v |-> 0]
undefined == [kind |-> "undefined", v |-> 0]

\* Number(s) for the metadata strings the model draws.
Number(s) ==
    CASE s = "1" -> Num(1)
      [] s = "2" -> Num(2)
      [] s = "0" -> Num(0)
      [] s = "" -> Num(0)
      [] OTHER -> NaN

\* Truthiness of a string-or-undefined metadata value.
TruthyStr(s) == s # Absent /\ s # ""

\* A test for undefined in place of the truthiness test.
TruthyNum_Defined(x) == x.kind # "undefined"

\* Truthiness of a number-or-undefined value.
TruthyNum(x) == x.kind = "number" /\ x.v # 0

\* meta.planId ? Number(meta.planId) : undefined
MetaNumber(s) == IF TruthyStr(s) THEN Number(s) ELSE undefined

----------------------------------------------------------------------------
(* The world the handler runs in *)

Users == {"u1", "u2"}
EventTypes == {"payment_intent.succeeded", "payment_intent.payment_failed",
               "charge.refunded"}

Intent(id, userId, planId, paymentId, amount) ==
    [id |-> id, amount |-> amount, userId |-> userId, planId |-> planId,
     paymentId |-> paymentId]

\* The payment intents that exist at the processor, with the metadata they
\* were created with: the owner paying an installment of their plan, another
\* user naming the same rows, ids that name no row, intents lacking one
\* of the three metadata keys, and the owner's intent for half the amount of
\* the installment it names.
Intents ==
    { Intent("pi_1", "u1", "1", "1", 100),
      Intent("pi_2", "u2", "1", "1", 100),
      Intent("pi_3", "u1", "2", "2", 100),
      Intent("pi_4", Absent, "1", "1", 100),
      Intent("pi_5", "u1", Absent, "1", 100),
      Intent("pi_6", "u1", "1", Absent, 100),
      Intent("pi_11", "u1", "1", "1", 50) }

\* The events constructEvent can return at time t: data.object is one of
\* the intents.
Events(t) ==
    { [type |-> ty, id |-> pi.id, amount |-> pi.amount, created |-> c,
       userId |-> pi.userId, planId |-> pi.planId,
       paymentId |-> pi.paymentId] :
        ty \in EventTypes, pi \in Intents, c \in 0..t }

\* Intents of the owner whose plan or payment id is missing, empty, "0" or
\* not a number, next to one with both ids in order.
OddIntents ==
    { Intent("pi_20", "u1", "0", "1", 100),
      Intent("pi_21", "u1", "abc", "1", 100),
      Intent("pi_22", "u1", "", "1", 100),
      Intent("pi_23", "u1", "1", "0", 100),
      Intent("pi_24", "u1", "1", "abc", 100),
      Intent("pi_25", "u1", "1", "", 100),
      Intent("pi_26", "u1", "0", "abc", 100),
      Intent("pi_27", "u1", "1", "1", 100),
      Intent("pi_28", "u1", Absent, "1", 100),
      Intent("pi_29", "u1", "1", Absent, 100) }

\* The events of those intents.
OddEvents(t) ==
    { [type |-> ty, id |-> pi.id, amount |-> pi.amount, created |-> c,
       userId |-> pi.userId, planId |-> pi.planId,
       paymentId |-> pi.paymentId] :
        ty \in EventTypes, pi \in OddIntents, c \in 0..t }

NoEvent ==
    [type |-> "", id |-> "", amount |-> 0, created |-> 0,
     userId |-> Absent, planId |-> Absent, paymentId |-> Absent]

Null == -1

----------------------------------------------------------------------------
(* stripeClient.ts *)

\* getStripeWebhookSecret(): throws when STRIPE_WEBHOOK_SECRET is missing.
getStripeWebhookSecretThrows == ~env["STRIPE_WEBHOOK_SECRET"]

\* getStripeClient(): throws when there is no cached client and
\* STRIPE_SECRET_KEY is missing; otherwise the cache holds a client.
getStripeClientThrows == stripe = "null" /\ ~env["STRIPE_SECRET_KEY"]

getStripeClient == IF getStripeClientThrows THEN stripe ELSE "client"

\* A getStripeClient without the test of the cache.
constructsClient_Always == env["STRIPE_SECRET_KEY"]

\* getStripeClient() reaches `stripe = new Stripe(secretKey, ...)`.
constructsClient == stripe = "null" /\ env["STRIPE_SECRET_KEY"]

\* A verification that checks the key of the signature but not the bytes.
constructEventThrows_KeyOnly(payload, signature) ==
    signature.key # "whsec"

\* client.webhooks.constructEvent(payload, signature, s): the signature
\* header must have been computed with the secret s over exactly the bytes
\* of payload.
constructEventThrows(payload, signature) ==
    \/ signature.key # "whsec"
    \/ payload.altered

\* constructStripeEvent(payload, signature)
constructStripeEventThrows(payload, signature) ==
    \/ getStripeWebhookSecretThrows
    \/ getStripeClientThrows
    \/ constructEventThrows(payload, signature)

\* the module-level cache after constructStripeEvent ran
stripeAfterConstruct ==
    IF getStripeWebhookSecretThrows THEN stripe ELSE getStripeClient

\* the number of clients constructed after constructStripeEvent ran
constructedAfterConstruct ==
    IF getStripeWebhookSecretThrows \/ ~constructsClient THEN constructed
    ELSE constructed + 1

----------------------------------------------------------------------------
(* sessionAuth.ts *)

MaxHandled == 3

Unauthorized == 401

\* req.session: the middleware may have set none, and SessionData has an
\* optional userId.
NoSession == [session |-> FALSE, userId |-> Absent]
Sessions ==
    {NoSession} \cup [session : {TRUE}, userId : {Absent, "", "u1", "u2"}]

\* req.session?.userId
sessionUserId(session) ==
    IF session.session THEN session.userId ELSE Absent

\* An isAuthenticated that goes on to next() after it responded.
isAuthenticated_NextAfterResponse(session) ==
    IF ~TruthyStr(sessionUserId(session))
    THEN [responses |-> <<[status |-> Unauthorized,
                           message |-> "Unauthorized"]>>,
          nextCalls |-> 1]
    ELSE [responses |-> <<>>, nextCalls |-> 1]

\* isAuthenticated(req, res, next): the responses sent and the number of
\* calls of next.
isAuthenticated(session) ==
    IF ~TruthyStr(sessionUserId(session))
    THEN [responses |-> <<[status |-> Unauthorized,
                           message |-> "Unauthorized"]>>,
          nextCalls |-> 0]
    ELSE [responses |-> <<>>, nextCalls |-> 1]

\* A request reaches a route guarded by isAuthenticated.
HandleRequest(session) ==
    /\ Len(handled) < MaxHandled
    /\ handled' = Append(handled, [session |-> session,
                                   result |-> isAuthenticated(session)])
    /\ UNCHANGED <<serverVars, clientVars, planVars, got, tour, chat>>

----------------------------------------------------------------------------
(* guided-tour.tsx, App.tsx *)

MaxCompletes == 3

\* tourSteps.length
TourLength == 6

\* A user who has not seen the tour, before the profile has loaded.
\* saving counts the runs of handleComplete that await the PUT, completes
\* the runs started, onCompleteCalls the calls of onComplete; last is the
\* handler that ran last.
TourClosed ==
    [showTour |-> FALSE, currentStep |-> 0, tourCompleted |-> FALSE,
     saving |-> 0, completes |-> 0, onCompleteCalls |-> 0, last |-> "none"]

tourUnchanged ==
    UNCHANGED <<serverVars, clientVars, planVars, got, handled, chat>>

\* handleComplete() up to its await: the PUT /api/user-profile is sent.
handleCompleteStarts(handler) ==
    /\ tour.completes < MaxCompletes
    /\ tour' = [tour EXCEPT !.saving = @ + 1, !.completes = @ + 1,
                            !.last = handler]

\* AuthenticatedApp is mounted, the profile loads without tourCompleted
\* and the timer of the effect fires: setShowTour(true). GuidedTour is
\* mounted with it, so currentStep is 0.
ShowTour ==
    /\ ~tour.showTour
    /\ ~tour.tourCompleted
    /\ tour.saving = 0
    /\ tour' = [tour EXCEPT !.showTour = TRUE, !.currentStep = 0,
                            !.last = "shown"]
    /\ tourUnchanged

\* handleNext
HandleNext ==
    /\ tour.showTour
    /\ IF tour.currentStep < TourLength - 1
       THEN tour' = [tour EXCEPT !.currentStep = @ + 1, !.last = "next"]
       ELSE handleCompleteStarts("next")
    /\ tourUnchanged

\* handlePrev
HandlePrev ==
    /\ tour.showTour
    /\ IF tour.currentStep > 0
       THEN tour' = [tour EXCEPT !.currentStep = @ - 1, !.last = "prev"]
       ELSE tour' = [tour EXCEPT !.last = "prev"]
    /\ tourUnchanged

\* handleSkip: the overlay, the close button and Skip Tour.
HandleSkip ==
    /\ tour.showTour
    /\ handleCompleteStarts("skip")
    /\ tourUnchanged

\* A handleComplete that reports completion only after a successful save.
SaveSettled_CompletesOnSuccess(ok) ==
    /\ tour.saving > 0
    /\ tour' = [tour EXCEPT
                   !.saving = @ - 1,
                   !.tourCompleted = @ \/ ok,
                   !.onCompleteCalls = IF ok THEN @ + 1 ELSE @,
                   !.showTour = IF ok THEN FALSE ELSE @,
                   !.last = "settled"]
    /\ tourUnchanged

\* handleComplete() after its await: the PUT resolved (ok) or rejected;
\* either way onComplete() runs, which is setShowTour(false).
SaveSettled(ok) ==
    /\ tour.saving > 0
    /\ tour' = [tour EXCEPT
                   !.saving = @ - 1,
                   !.tourCompleted = @ \/ ok,
                   !.onCompleteCalls = @ + 1,
                   !.showTour = FALSE,
                   !.last = "settled"]
    /\ tourUnchanged

----------------------------------------------------------------------------
(* support-chat.tsx *)

MaxDraft == 2
MaxPosted == 2

\* Drafts are strings of blanks and letters, as sequences of characters.
Chars == {" ", "a"}

RECURSIVE DraftsOfLength(_)
DraftsOfLength(n) ==
    IF n = 0 THEN {<<>>}
    ELSE {Append(d, c) : d \in DraftsOfLength(n - 1), c \in Chars}

Drafts == UNION {DraftsOfLength(n) : n \in 0..MaxDraft}

\* String.prototype.trim: the blanks at both ends are removed.
RECURSIVE TrimStart(_)
TrimStart(t) ==
    IF t # <<>> /\ Head(t) = " " THEN TrimStart(Tail(t)) ELSE t

RECURSIVE TrimEnd(_)
TrimEnd(t) ==
    IF t # <<>> /\ t[Len(t)] = " " THEN TrimEnd(SubSeq(t, 1, Len(t) - 1))
    ELSE t

Trim(t) == TrimEnd(TrimStart(t))

\* The chat sessions of the user on the server: a closed one, an active
\* one with the assistant, an active one waiting for an agent, and the one
\* that New Chat creates.
ChatSession(id, status, mode) == [id |-> id, status |-> status, mode |-> mode]
ClosedSession == ChatSession(1, "closed", "ai")
AiSession == ChatSession(2, "active", "ai")
WaitingSession == ChatSession(3, "active", "waiting")
NewSession == ChatSession(4, "active", "ai")

SessionIds ==
    {ClosedSession.id, AiSession.id, WaitingSession.id, NewSession.id}

InitialLists ==
    {<<>>, <<ClosedSession>>, <<ClosedSession, AiSession>>,
     <<WaitingSession, AiSession>>}

\* !activeSessionId is false
SessionSelected(id) == id # Null /\ id # 0

\* sessions.find(s => s.status === "active"): its position, 0 for none
RECURSIVE FindActiveFrom(_, _)
FindActiveFrom(list, i) ==
    IF i > Len(list) THEN 0
    ELSE IF list[i].status = "active" THEN i
    ELSE FindActiveFrom(list, i + 1)

\* An effect that selects the active session whatever is selected.
selectActiveEffect_Always(c) ==
    IF c.sessions.loaded /\ Len(c.sessions.list) > 0
    THEN LET i == FindActiveFrom(c.sessions.list, 1)
         IN  IF i > 0
             THEN [c EXCEPT !.activeSessionId = c.sessions.list[i].id]
             ELSE c
    ELSE c

\* The effect on [sessions, activeSessionId]: it runs after every render
\* in which one of the two changed.
selectActiveEffect(c) ==
    IF /\ c.sessions.loaded /\ Len(c.sessions.list) > 0
       /\ ~SessionSelected(c.activeSessionId)
    THEN LET i == FindActiveFrom(c.sessions.list, 1)
         IN  IF i > 0
             THEN [c EXCEPT !.activeSessionId = c.sessions.list[i].id]
             ELSE c
    ELSE c

\* No POST of a message has been issued.
NoRequest == [sessionId |-> Null, content |-> <<>>]

\* The component after mounting: the sessions query has no data yet.
\* request is the last POST of sendMessageMutation and posts their
\* number; stale says that the sessions query was invalidated after a
\* session was created.
ChatMounted ==
    [message |-> <<>>, activeSessionId |-> Null,
     sessions |-> [loaded |-> FALSE, list |-> <<>>],
     sending |-> FALSE, creating |-> FALSE, stale |-> FALSE,
     posts |-> 0, request |-> NoRequest]

chatUnchanged ==
    UNCHANGED <<serverVars, clientVars, planVars, got, handled, tour>>

\* activeSession?.mode === "waiting"
activeSessionWaiting ==
    \E i \in 1..Len(chat.sessions.list) :
        /\ chat.sessions.list[i].id = chat.activeSessionId
        /\ chat.sessions.list[i].mode = "waiting"

\* The sessions query resolves for the first time.
SessionsLoaded(list) ==
    /\ ~chat.sessions.loaded
    /\ chat' = selectActiveEffect(
                   [chat EXCEPT !.sessions = [loaded |-> TRUE,
                                              list |-> list]])
    /\ chatUnchanged

\* The sessions query, invalidated, refetches: the new session is listed.
SessionsRefetched ==
    /\ chat.stale
    /\ chat' = selectActiveEffect(
                   [chat EXCEPT !.sessions.list = Append(@, NewSession),
                                !.stale = FALSE])
    /\ chatUnchanged

\* The user picks a session of the Chat History.
SelectSession(id) ==
    /\ chat.sessions.loaded
    /\ \E i \in 1..Len(chat.sessions.list) : chat.sessions.list[i].id = id
    /\ chat' = selectActiveEffect([chat EXCEPT !.activeSessionId = id])
    /\ chatUnchanged

\* New Chat: createSessionMutation.mutate()
CreateSession ==
    /\ chat.sessions.loaded
    /\ ~chat.creating
    /\ \A i \in 1..Len(chat.sessions.list) :
           chat.sessions.list[i] # NewSession
    /\ ~chat.stale
    /\ chat' = [chat EXCEPT !.creating = TRUE]
    /\ chatUnchanged

\* createSessionMutation settles; onSuccess invalidates the sessions and
\* selects the new session.
SessionCreated(ok) ==
    /\ chat.creating
    /\ chat' = IF ok
               THEN selectActiveEffect(
                        [chat EXCEPT !.creating = FALSE, !.stale = TRUE,
                                     !.activeSessionId = NewSession.id])
               ELSE [chat EXCEPT !.creating = FALSE]
    /\ chatUnchanged

\* onChange of the input, which is rendered once a session is selected
\* and is disabled while a send is pending or the session is waiting.
TypeMessage(text) ==
    /\ SessionSelected(chat.activeSessionId)
    /\ ~chat.sending
    /\ ~activeSessionWaiting
    /\ text # chat.message
    /\ chat' = [chat EXCEPT !.message = text]
    /\ chatUnchanged

\* handleSendMessage: the form is submitted; mutate() issues the POST for
\* the session selected at that moment.
HandleSendMessage ==
    /\ ~chat.sending
    /\ chat.posts < MaxPosted
    /\ IF Trim(chat.message) = <<>> \/ ~SessionSelected(chat.activeSessionId)
       THEN UNCHANGED chat
       ELSE chat' = [chat EXCEPT
                        !.sending = TRUE,
                        !.posts = @ + 1,
                        !.request = [sessionId |-> chat.activeSessionId,
                                     content |-> Trim(chat.message)]]
    /\ chatUnchanged

\* sendMessageMutation settles: onSuccess clears the draft, onError only
\* shows a toast.
SendSettled(ok) ==
    /\ chat.sending
    /\ chat' = [chat EXCEPT !.sending = FALSE,
                            !.message = IF ok THEN <<>> ELSE @]
    /\ chatUnchanged

----------------------------------------------------------------------------
(* stripeClient.ts: direct calls *)

MaxCalls == 3

\* Some code of the server calls getStripeClient(): the outcome is appended
\* to got, the cache and the count of constructions follow the function.
GetStripeClientCall ==
    /\ Len(got) < MaxCalls
    /\ got' = Append(got, IF getStripeClientThrows THEN "threw"
                          ELSE "client")
    /\ stripe' = getStripeClient
    /\ constructed' = IF constructsClient THEN constructed + 1
                      ELSE constructed
    /\ UNCHANGED <<env, db, now, call, delivered, clientVars, planVars,
                   handled, tour, chat>>

\* process.env changes while the process runs: a variable is set or unset.
SetEnv(name, value) ==
    /\ env[name] # value
    /\ env' = [env EXCEPT ![name] = value]
    /\ UNCHANGED <<stripe, constructed, db, now, call, delivered, clientVars,
                   planVars, appVars>>

Payloads == [isBuffer : BOOLEAN, altered : BOOLEAN]
Signatures == [key : {"whsec", "forged"}]

----------------------------------------------------------------------------
(* storage *)

\* Apply a patch (a partial row) to a row.
ApplyPatch(row, patch) ==
    [f \in DOMAIN row |-> IF f \in DOMAIN patch THEN patch[f] ELSE row[f]]

\* An update that looks the row up by id alone.
updateScheduledPayment_Unscoped(id, userId, patch) ==
    IF id \in DOMAIN scheduledPayments
    THEN [scheduledPayments EXCEPT ![id] = ApplyPatch(@, patch)]
    ELSE scheduledPayments

\* storage.updateScheduledPayment(id, userId, patch): the row with that id
\* owned by userId gets the patch; no such row, nothing happens.
updateScheduledPayment(id, userId, patch) ==
    IF id \in DOMAIN scheduledPayments
       /\ scheduledPayments[id].userId = userId
    THEN [scheduledPayments EXCEPT ![id] = ApplyPatch(@, patch)]
    ELSE scheduledPayments

\* storage.createTransaction(userId, tx): appends one row owned by userId.
createTransaction(userId, tx) ==
    Append(transactions,
           [userId |-> userId, planId |-> tx.planId, type |-> tx.type,
            amount |-> tx.amount, externalId |-> tx.externalId,
            status |-> tx.status, description |-> tx.description])

----------------------------------------------------------------------------
(* WebhookHandlers.processWebhook *)

NoPayload == [isBuffer |-> FALSE, altered |-> FALSE]
NoSignature == [key |-> ""]

\* A request slot: the arguments of the invocation, where it stands (pc),
\* how far signature verification got, the verified event, the paidAt value
\* evaluated for the patch, and the number of storage calls it has made.
\* prior is history: the status in which its update found the row.
Idle ==
    [pc |-> "idle", payload |-> NoPayload, signature |-> NoSignature,
     verify |-> "none", event |-> NoEvent, paidAt |-> Null, writes |-> 0,
     prior |-> ""]

Invocation(payload, signature) ==
    [Idle EXCEPT !.payload = payload, !.signature = signature]

Finished(w) == call[w].pc \in {"idle", "returned", "threw"}

\* An event without a userId falling back to the session's test user.
userIdOf_Default(event) ==
    IF event.userId = Absent THEN "u1" ELSE event.userId

\* the locals of the handler
userIdOf(event) == event.userId
planIdOf(event) == MetaNumber(event.planId)
paymentIdOf(event) == MetaNumber(event.paymentId)

\* A patch with a misspelt status.
CompletedPatch_Typo(paidAt) == [status |-> "complete", paidAt |-> paidAt]

\* The patch written for a succeeded event.
CompletedPatch(paidAt) == [status |-> "completed", paidAt |-> paidAt]

\* The patch of the succeeded branch, pasted into the failed branch.
FailedPatch_Completes == [status |-> "completed"]

\* The patch written for a failed event.
FailedPatch == [status |-> "failed"]

\* A classification whose last branch takes every event that is not a
\* succeeded one.
FirstAwait_FailedByDefault(event) ==
    IF event.type = "payment_intent.succeeded"
    THEN IF TruthyStr(userIdOf(event))
         THEN IF TruthyNum(paymentIdOf(event)) THEN "update_completed"
              ELSE IF TruthyNum(planIdOf(event)) THEN "create_transaction"
              ELSE "returned"
         ELSE "returned"
    ELSE IF TruthyStr(userIdOf(event)) /\ TruthyNum(paymentIdOf(event))
         THEN "update_failed"
         ELSE "returned"

\* Where the handler stands after classifying the event, up to its first
\* await.
FirstAwait(event) ==
    IF event.type = "payment_intent.succeeded"
    THEN IF TruthyStr(userIdOf(event))
         THEN IF TruthyNum(paymentIdOf(event)) THEN "update_completed"
              ELSE IF TruthyNum(planIdOf(event)) THEN "create_transaction"
              ELSE "returned"
         ELSE "returned"
    ELSE IF event.type = "payment_intent.payment_failed"
    THEN IF TruthyStr(userIdOf(event)) /\ TruthyNum(paymentIdOf(event))
         THEN "update_failed"
         ELSE "returned"
    ELSE "returned"

\* A guard that lets every payload through.
isBuffer_Always(payload) == TRUE

\* Buffer.isBuffer(payload)
isBuffer(payload) == payload.isBuffer

\* The status of the row an update with these arguments acts on.
PriorStatus(id, userId) ==
    IF id \in DOMAIN scheduledPayments
       /\ scheduledPayments[id].userId = userId
    THEN scheduledPayments[id].status
    ELSE ""

\* Buffer.isBuffer(payload) is false: throw before anything else.
RejectNotBuffer(w, payload, signature) ==
    /\ ~isBuffer(payload)
    /\ call' = [call EXCEPT ![w] =
                    [Invocation(payload, signature) EXCEPT !.pc = "threw"]]
    /\ UNCHANGED <<stripe, constructed, db>>

\* constructStripeEvent throws.
RejectUnverified(w, payload, signature) ==
    /\ isBuffer(payload)
    /\ constructStripeEventThrows(payload, signature)
    /\ stripe' = stripeAfterConstruct
    /\ constructed' = constructedAfterConstruct
    /\ call' = [call EXCEPT ![w] =
                    [Invocation(payload, signature) EXCEPT
                        !.pc = "threw", !.verify = "failed"]]
    /\ UNCHANGED db

\* A handler that records the transaction of an event with both ids without
\* having made the update.
Accept_TransactionFirst(w, payload, signature, events) ==
    /\ isBuffer(payload)
    /\ ~constructStripeEventThrows(payload, signature)
    /\ stripe' = stripeAfterConstruct
    /\ constructed' = constructedAfterConstruct
    /\ \E event \in events :
         call' = [call EXCEPT ![w] =
                     [Invocation(payload, signature) EXCEPT
                        !.pc = IF FirstAwait(event) = "update_completed"
                                  /\ TruthyNum(planIdOf(event))
                               THEN "create_transaction"
                               ELSE FirstAwait(event),
                        !.verify = "ok",
                        !.event = event,
                        !.paidAt = IF FirstAwait(event) = "update_completed"
                                   THEN now ELSE Null]]
    /\ UNCHANGED db

\* The event is verified; run to the first await (or to the return).
Accept(w, payload, signature, events) ==
    /\ isBuffer(payload)
    /\ ~constructStripeEventThrows(payload, signature)
    /\ stripe' = stripeAfterConstruct
    /\ constructed' = constructedAfterConstruct
    /\ \E event \in events :
         call' = [call EXCEPT ![w] =
                     [Invocation(payload, signature) EXCEPT
                        !.pc = FirstAwait(event),
                        !.verify = "ok",
                        !.event = event,
                        !.paidAt = IF FirstAwait(event) = "update_completed"
                                   THEN now ELSE Null]]
    /\ UNCHANGED db

\* A delivery arrives: processWebhook(payload, signature) is called.
ProcessWebhookOf(w, events) ==
    /\ Finished(w)
    /\ delivered < MaxDeliveries
    /\ delivered' = delivered + 1
    /\ \E payload \in Payloads, signature \in Signatures :
         \/ RejectNotBuffer(w, payload, signature)
         \/ RejectUnverified(w, payload, signature)
         \/ Accept(w, payload, signature, events)
    /\ UNCHANGED <<env, now, clientVars, planVars, appVars>>

\* A delivery of any event of any intent known to the processor.
ProcessWebhook(w) == ProcessWebhookOf(w, Events(now))

\* The update of the succeeded branch, also moving the due date to the day
\* of the payment.
UpdateCompleted_MovesDueDate(w) ==
    /\ call[w].pc = "update_completed"
    /\ scheduledPayments' =
         updateScheduledPayment(paymentIdOf(call[w].event).v,
                                userIdOf(call[w].event),
                                [status |-> "completed",
                                 paidAt |-> call[w].paidAt,
                                 dueDate |-> call[w].paidAt])
    /\ call' = [call EXCEPT
                  ![w].pc = IF TruthyNum(planIdOf(call[w].event))
                            THEN "create_transaction" ELSE "returned",
                  ![w].writes = @ + 1,
                  ![w].prior = PriorStatus(paymentIdOf(call[w].event).v,
                                           userIdOf(call[w].event))]
    /\ UNCHANGED <<env, stripe, constructed, creditPlans, transactions, now,
                   delivered, clientVars, planVars, appVars>>

\* await storage.updateScheduledPayment(paymentId, userId,
\*                                      {status: "completed", paidAt})
UpdateCompleted(w) ==
    /\ call[w].pc = "update_completed"
    /\ scheduledPayments' =
         updateScheduledPayment(paymentIdOf(call[w].event).v,
                                userIdOf(call[w].event),
                                CompletedPatch(call[w].paidAt))
    /\ call' = [call EXCEPT
                  ![w].pc = IF TruthyNum(planIdOf(call[w].event))
                            THEN "create_transaction" ELSE "returned",
                  ![w].writes = @ + 1,
                  ![w].prior = PriorStatus(paymentIdOf(call[w].event).v,
                                           userIdOf(call[w].event))]
    /\ UNCHANGED <<env, stripe, constructed, creditPlans, transactions, now,
                   delivered, clientVars, planVars, appVars>>

\* The same record with the scheduled-payment id written where the
\* processor's intent id belongs.
PaymentTransaction_PaymentRef(event) ==
    [planId |-> planIdOf(event).v,
     type |-> "payment",
     amount |-> event.amount,
     externalId |-> event.paymentId,
     status |-> "completed",
     description |->
        IF TruthyNum(paymentIdOf(event))
        THEN <<"Payment for scheduled payment #", paymentIdOf(event).v>>
        ELSE <<"Credit plan payment", 0>>]

\* The transaction the succeeded branch records: { planId, type: "payment",
\* amount: paymentIntent.amount, externalId: paymentIntent.id, ... }
PaymentTransaction(event) ==
    [planId |-> planIdOf(event).v,
     type |-> "payment",
     amount |-> event.amount,
     externalId |-> event.id,
     status |-> "completed",
     description |->
        IF TruthyNum(paymentIdOf(event))
        THEN <<"Payment for scheduled payment #", paymentIdOf(event).v>>
        ELSE <<"Credit plan payment", 0>>]

\* await storage.createTransaction(userId, {...})
CreateTransaction(w) ==
    /\ call[w].pc = "create_transaction"
    /\ transactions' =
         createTransaction(userIdOf(call[w].event),
                           PaymentTransaction(call[w].event))
    /\ call' = [call EXCEPT ![w].pc = "returned", ![w].writes = @ + 1]
    /\ UNCHANGED <<env, stripe, constructed, scheduledPayments, creditPlans,
                   now, delivered, clientVars, planVars, appVars>>

\* await storage.updateScheduledPayment(paymentId, userId,
\*                                      {status: "failed"})
UpdateFailed(w) ==
    /\ call[w].pc = "update_failed"
    /\ scheduledPayments' =
         updateScheduledPayment(paymentIdOf(call[w].event).v,
                                userIdOf(call[w].event), FailedPatch)
    /\ call' = [call EXCEPT
                  ![w].pc = "returned",
                  ![w].writes = @ + 1,
                  ![w].prior = PriorStatus(paymentIdOf(call[w].event).v,
                                           userIdOf(call[w].event))]
    /\ UNCHANGED <<env, stripe, constructed, creditPlans, transactions, now,
                   delivered, clientVars, planVars, appVars>>

\* A delivery of an event of one of the intents with odd ids.
ProcessOddWebhook(w) == ProcessWebhookOf(w, OddEvents(now))

\* The storage call the handler is awaiting rejects: nothing is written and
\* the rejection leaves processWebhook, which has no try/catch.
StorageThrows(w) ==
    /\ call[w].pc \in {"update_completed", "create_transaction",
                       "update_failed"}
    /\ call' = [call EXCEPT ![w].pc = "threw"]
    /\ UNCHANGED <<env, stripe, constructed, db, now, delivered, clientVars,
                   planVars, appVars>>

\* Time passes.
Tick ==
    /\ now < MaxTime
    /\ now' = now + 1
    /\ UNCHANGED <<env, stripe, constructed, db, call, delivered, clientVars,
                   planVars, appVars>>

----------------------------------------------------------------------------
(* Server routes used by the payment sheet *)

SessionUser == "u1"

\* The id of the n-th intent created through the endpoint.
ClientIntentId(n) == <<"pi_7", "pi_8", "pi_9", "pi_10">>[n]

\* String(n) for the metadata of an intent; a missing id leaves the key out.
MetaString(n) ==
    CASE n = 1 -> "1"
      [] n = 2 -> "2"
      [] OTHER -> Absent

\* POST /api/stripe/create-payment-intent: asks the processor for an intent
\* carrying the session user and the given ids as metadata.  The route
\* writes nothing to storage.
createPaymentIntentRoute(userId, body) ==
    [intent |-> Intent(ClientIntentId(Len(intents) + 1), userId,
                       MetaString(body.planId), MetaString(body.paymentId),
                       body.amount),
     scheduledPayments |-> scheduledPayments,
     transactions |-> transactions]

\* POST /api/stripe/confirm-payment: the client's report of success is
\* advisory; the route writes nothing to storage.
confirmPaymentRoute(userId, body) ==
    [scheduledPayments |-> scheduledPayments,
     transactions |-> transactions]

\* The events the processor emits for the intents created by the client.
ClientEvents(t) ==
    { [type |-> ty, id |-> intents[i].id, amount |-> intents[i].amount,
       created |-> c, userId |-> intents[i].userId,
       planId |-> intents[i].planId, paymentId |-> intents[i].paymentId] :
        ty \in EventTypes, i \in 1..Len(intents), c \in 0..t }

\* A delivery of an event of an intent the client created.
ProcessClientWebhook(w) ==
    /\ intents # <<>>
    /\ ProcessWebhookOf(w, ClientEvents(now))

----------------------------------------------------------------------------
(* CreditPlans, PaymentSheet and CheckoutForm *)

MaxRequests == 2

NoDetails == [amount |-> 0, planId |-> 0, paymentId |-> 0]
NoSecret == ""
FormInit == [paymentStatus |-> "idle", isProcessing |-> FALSE]
NoSubmit == [pc |-> "none", live |-> FALSE, clientSecret |-> NoSecret,
             details |-> NoDetails]

\* <PaymentSheet> renders <CheckoutForm> when the dialog is open, nothing is
\* loading, and both stripePromise and clientSecret are set.
FormShown(details, open, cfg, loading, secret) ==
    /\ details # NoDetails
    /\ open
    /\ cfg
    /\ ~loading
    /\ secret # NoSecret

\* Remove the i-th element of a sequence.
RemoveAt(seq, i) == SubSeq(seq, 1, i - 1) \o SubSeq(seq, i + 1, Len(seq))

\* The requests of an unmounted PaymentSheet can no longer set its state.
Orphaned(reqs) == [i \in 1..Len(reqs) |-> [reqs[i] EXCEPT !.live = FALSE]]

\* The createPaymentIntent effect of PaymentSheet, run with the values of
\* the render that scheduled it: the new state <<isLoading, pending>>.
createPaymentIntentEffect(details, open, cfg, secret, loading, reqs) ==
    IF ~open \/ ~cfg \/ secret # NoSecret
    THEN <<loading, reqs>>
    ELSE <<TRUE, Append(reqs, [body |-> details, live |-> TRUE])>>

\* The state of the page after a render: an unmounted PaymentSheet loses its
\* state, an unmounted CheckoutForm too, and a run of handleSubmit that
\* belongs to an unmounted form can no longer set its state.
Render(details, open, cfg, loading, secret, reqs, f, sub, tm) ==
    LET mounted == details # NoDetails
        shown == FormShown(details, open, cfg, loading, secret)
    IN  /\ paymentDetails' = details
        /\ paymentOpen' = open
        /\ config' = cfg
        /\ isLoading' = (mounted /\ loading)
        /\ clientSecret' = IF mounted THEN secret ELSE NoSecret
        /\ pending' = IF mounted THEN reqs ELSE Orphaned(reqs)
        /\ form' = IF shown THEN f ELSE FormInit
        /\ submit' = [sub EXCEPT !.live = @ /\ shown]
        /\ timer' = tm

\* The user clicks Pay on a scheduled installment of theirs: CreditPlans
\* sets paymentDetails and paymentOpen; the effects of PaymentSheet run.
ClickPay(id) ==
    /\ ~paymentOpen
    /\ id \in DOMAIN scheduledPayments
    /\ scheduledPayments[id].userId = SessionUser
    /\ scheduledPayments[id].status = "scheduled"
    /\ Len(intents) + Len(pending) < MaxRequests
    /\ LET details == [amount |-> scheduledPayments[id].amount,
                       planId |-> scheduledPayments[id].planId,
                       paymentId |-> id]
           eff == createPaymentIntentEffect(details, TRUE, config,
                                            clientSecret, isLoading, pending)
       IN  Render(details, TRUE, config, eff[1], clientSecret, eff[2],
                  form, submit, timer)
    /\ UNCHANGED <<serverVars, intents, planVars, appVars>>

\* The query for /api/stripe/config resolves: stripePromise is set and the
\* createPaymentIntent effect runs again.
ConfigLoaded ==
    /\ ~config
    /\ paymentOpen
    /\ Len(intents) + Len(pending) < MaxRequests
    /\ LET eff == createPaymentIntentEffect(paymentDetails, paymentOpen,
                                            TRUE, clientSecret, isLoading,
                                            pending)
       IN  Render(paymentDetails, paymentOpen, TRUE, eff[1], clientSecret,
                  eff[2], form, submit, timer)
    /\ UNCHANGED <<serverVars, intents, planVars, appVars>>

\* The user dismisses the dialog: onOpenChange(false); the effect on [open]
\* clears clientSecret.
CloseSheet ==
    /\ paymentOpen
    /\ Render(paymentDetails, FALSE, config, isLoading, NoSecret, pending,
              form, submit, timer)
    /\ UNCHANGED <<serverVars, intents, planVars, appVars>>

\* A create-payment-intent request succeeds: setClientSecret, then
\* setIsLoading(false).
IntentCreated(i) ==
    /\ i \in 1..Len(pending)
    /\ LET res == createPaymentIntentRoute(SessionUser, pending[i].body)
       IN  /\ intents' = Append(intents, res.intent)
           /\ scheduledPayments' = res.scheduledPayments
           /\ transactions' = res.transactions
           /\ Render(paymentDetails, paymentOpen, config,
                     IF pending[i].live THEN FALSE ELSE isLoading,
                     IF pending[i].live THEN res.intent.id ELSE clientSecret,
                     RemoveAt(pending, i), form, submit, timer)
    /\ UNCHANGED <<env, stripe, constructed, creditPlans, now, call,
                   delivered, planVars, appVars>>

\* A catch block that drops the error: the dialog stays open.
IntentFailed_StaysOpen(i) ==
    /\ i \in 1..Len(pending)
    /\ Render(paymentDetails, paymentOpen, config,
              IF pending[i].live THEN FALSE ELSE isLoading,
              clientSecret,
              RemoveAt(pending, i), form, submit, timer)
    /\ UNCHANGED <<serverVars, intents, planVars, appVars>>

\* A create-payment-intent request fails: toast, onOpenChange(false), then
\* setIsLoading(false).
IntentFailed(i) ==
    /\ i \in 1..Len(pending)
    /\ Render(paymentDetails, FALSE, config,
              IF pending[i].live THEN FALSE ELSE isLoading,
              IF paymentOpen THEN NoSecret ELSE clientSecret,
              RemoveAt(pending, i), form, submit, timer)
    /\ UNCHANGED <<serverVars, intents, planVars, appVars>>

\* setState of the form, by the run of handleSubmit in flight.
SetForm(f) == IF submit.live THEN f ELSE form

\* handleSubmit up to `await elements.submit()`.
Submit ==
    /\ FormShown(paymentDetails, paymentOpen, config, isLoading,
                 clientSecret)
    /\ form.paymentStatus \in {"idle", "processing"}
    /\ ~form.isProcessing
    /\ submit.pc = "none"
    /\ Render(paymentDetails, paymentOpen, config, isLoading, clientSecret,
              pending,
              [paymentStatus |-> "processing", isProcessing |-> TRUE],
              [pc |-> "elements.submit", live |-> TRUE,
               clientSecret |-> clientSecret, details |-> paymentDetails],
              timer)
    /\ UNCHANGED <<serverVars, intents, planVars, appVars>>

\* elements.submit() resolves, with or without a submitError.
ElementsSubmitted(submitError) ==
    /\ submit.pc = "elements.submit"
    /\ IF submitError
       THEN Render(paymentDetails, paymentOpen, config, isLoading,
                   clientSecret, pending,
                   SetForm([paymentStatus |-> "failed",
                            isProcessing |-> FALSE]),
                   NoSubmit, timer)
       ELSE Render(paymentDetails, paymentOpen, config, isLoading,
                   clientSecret, pending, form,
                   [submit EXCEPT !.pc = "stripe.confirmPayment"], timer)
    /\ UNCHANGED <<serverVars, intents, planVars, appVars>>

ConfirmOutcomes ==
    {"error", "succeeded", "requires_action", "processing", "throws"}

\* A form that takes any returned paymentIntent for a success, whatever its
\* status.
PaymentConfirmed_AnyIntent(outcome) ==
    /\ submit.pc = "stripe.confirmPayment"
    /\ IF outcome = "succeeded"
       THEN Render(paymentDetails, paymentOpen, config, isLoading,
                   clientSecret, pending, form,
                   [submit EXCEPT !.pc = "confirm-payment"], timer)
       ELSE Render(paymentDetails, paymentOpen, config, isLoading,
                   clientSecret, pending,
                   SetForm([paymentStatus |->
                               IF outcome \in {"requires_action",
                                               "processing"}
                               THEN "succeeded" ELSE "failed",
                            isProcessing |-> FALSE]),
                   NoSubmit, timer)
    /\ UNCHANGED <<serverVars, intents, planVars, appVars>>

\* stripe.confirmPayment() settles.
PaymentConfirmed(outcome) ==
    /\ submit.pc = "stripe.confirmPayment"
    /\ IF outcome = "succeeded"
       THEN Render(paymentDetails, paymentOpen, config, isLoading,
                   clientSecret, pending, form,
                   [submit EXCEPT !.pc = "confirm-payment"], timer)
       ELSE Render(paymentDetails, paymentOpen, config, isLoading,
                   clientSecret, pending,
                   SetForm([paymentStatus |->
                               IF outcome = "requires_action"
                               THEN "idle" ELSE "failed",
                            isProcessing |-> FALSE]),
                   NoSubmit, timer)
    /\ UNCHANGED <<serverVars, intents, planVars, appVars>>

\* The confirm-payment request settles: on success the form shows the
\* success state and arms the timer; on failure the catch block runs.
PaymentReported(ok) ==
    /\ submit.pc = "confirm-payment"
    /\ LET res == confirmPaymentRoute(SessionUser,
                     [paymentIntentId |-> submit.clientSecret,
                      planId |-> submit.details.planId,
                      paymentId |-> submit.details.paymentId])
       IN  /\ scheduledPayments' = res.scheduledPayments
           /\ transactions' = res.transactions
    /\ Render(paymentDetails, paymentOpen, config, isLoading, clientSecret,
              pending,
              SetForm([paymentStatus |-> IF ok THEN "succeeded"
                                         ELSE "failed",
                       isProcessing |-> FALSE]),
              NoSubmit, IF ok THEN TRUE ELSE timer)
    /\ UNCHANGED <<env, stripe, constructed, creditPlans, now, call,
                   delivered, intents, planVars, appVars>>

\* 1500 ms later: onSuccess() clears paymentDetails, onOpenChange(false).
TimerFires ==
    /\ timer
    /\ Render(NoDetails, FALSE, config, isLoading, NoSecret, pending, form,
              submit, FALSE)
    /\ UNCHANGED <<serverVars, intents, planVars, appVars>>

\* The Try Again button.
TryAgain ==
    /\ FormShown(paymentDetails, paymentOpen, config, isLoading,
                 clientSecret)
    /\ form.paymentStatus = "failed"
    /\ Render(paymentDetails, paymentOpen, config, isLoading, clientSecret,
              pending, [form EXCEPT !.paymentStatus = "idle"], submit, timer)
    /\ UNCHANGED <<serverVars, intents, planVars, appVars>>

----------------------------------------------------------------------------
(* Specifications *)

EnvNames == {"STRIPE_SECRET_KEY", "STRIPE_WEBHOOK_SECRET"}

\* One plan and one scheduled installment of it, both of user u1; ids 2
\* name no row.
InitialPayments ==
    (1 :> [userId |-> "u1", planId |-> 1, amount |-> 100, dueDate |-> 0,
           status |-> "scheduled", paidAt |-> Null])

InitialPlans ==
    (1 :> [userId |-> "u1", planName |-> "Plan", totalAmount |-> 100,
           monthlyPayment |-> 100, termMonths |-> 1, startDate |-> 0,
           autopayEnabled |-> FALSE, status |-> "active"])

----------------------------------------------------------------------------
(* Dates *)

\* A calendar date as a number that orders like the calendar: 31 slots per
\* month, twelve months per year.
DateNum(y, m, d) == (y * 12 + (m - 1)) * 31 + (d - 1)

MonthIndex(date) == date \div 31
DayOfMonth(date) == (date % 31) + 1

IsLeapYear(y) == y % 4 = 0 /\ (y % 100 # 0 \/ y % 400 = 0)

DaysInMonth(y, m) ==
    CASE m = 2 -> IF IsLeapYear(y) THEN 29 ELSE 28
      [] m \in {4, 6, 9, 11} -> 30
      [] OTHER -> 31

\* Invalid Date
InvalidDate == Null

\* new Date(s) for the strings the form and the requests carry.
ParseDate(s) ==
    CASE s = "2024-01-31" -> DateNum(2024, 1, 31)
      [] OTHER -> InvalidDate

\* date + k calendar months; a day the target month lacks becomes its last
\* day.
AddMonths(date, k) ==
    LET t == MonthIndex(date) + k
        y == t \div 12
        m == (t % 12) + 1
        d == DayOfMonth(date)
        last == DaysInMonth(y, m)
    IN  DateNum(y, m, IF d > last THEN last ELSE d)

----------------------------------------------------------------------------
(* CreditPlans: the create-plan dialog *)

MinTotalAmount == 100
MinTermMonths == 1
MaxTermMonths == 60

\* What the user can type into the form.
PlanNames == {"", "Plan"}
TotalAmounts == {0, 100, 119, 50000}
TermMonths == 0..61
StartDates == {"", "soon", "2024-01-31"}

\* The values a field of the form can be given.
FieldValues(field) ==
    CASE field = "planName" -> PlanNames
      [] field = "totalAmount" -> TotalAmounts
      [] field = "termMonths" -> TermMonths
      [] field = "startDate" -> StartDates

FormFields == {"planName", "totalAmount", "termMonths", "startDate"}

\* defaultValues of useForm; startDate is today's date.
DefaultForm ==
    [planName |-> "", totalAmount |-> 0, termMonths |-> 12,
     startDate |-> "2024-01-31", autopayEnabled |-> FALSE]

\* A schema without the minimum on the total.
SchemaErrors_NoMinimum(data) ==
    {f \in {"planName"} : Len(data.planName) < 1}
    \cup {f \in {"termMonths"} :
             data.termMonths < MinTermMonths \/ data.termMonths > MaxTermMonths}
    \cup {f \in {"startDate"} : Len(data.startDate) < 1}

\* The fields createPlanSchema rejects.
SchemaErrors(data) ==
    {f \in {"planName"} : Len(data.planName) < 1}
    \cup {f \in {"totalAmount"} : data.totalAmount < MinTotalAmount}
    \cup {f \in {"termMonths"} :
             data.termMonths < MinTermMonths \/ data.termMonths > MaxTermMonths}
    \cup {f \in {"startDate"} : Len(data.startDate) < 1}

\* Rounding down instead of up.
monthlyPaymentOf_Floor(data) == data.totalAmount \div data.termMonths

\* Math.ceil(data.totalAmount / data.termMonths)
monthlyPaymentOf(data) ==
    (data.totalAmount + data.termMonths - 1) \div data.termMonths

\* new Date(data.startDate).toISOString() throws a RangeError on an
\* Invalid Date.
toISOStringThrows(s) == ParseDate(s) = InvalidDate

\* The body mutationFn posts to /api/credit-plans.
PlanBody(data) ==
    [planName |-> data.planName,
     totalAmount |-> data.totalAmount,
     monthlyPayment |-> monthlyPaymentOf(data),
     termMonths |-> data.termMonths,
     startDate |-> ParseDate(data.startDate),
     autopayEnabled |-> data.autopayEnabled,
     status |-> "active"]

NoBody ==
    [planName |-> "", totalAmount |-> 0, monthlyPayment |-> 0,
     termMonths |-> 0, startDate |-> InvalidDate, autopayEnabled |-> FALSE,
     status |-> ""]

\* createMutation before its first mutate(): status, the variables of the
\* request in flight, and the error it last failed with.
MutationIdle == [status |-> "idle", body |-> NoBody, error |-> ""]

----------------------------------------------------------------------------
(* POST /api/credit-plans and the persistence gateway *)

\* The bodies another client of the API can post.
DirectBodies ==
    { [planName |-> "Plan", totalAmount |-> t, monthlyPayment |-> m,
       termMonths |-> n, startDate |-> d, autopayEnabled |-> FALSE,
       status |-> "active"] :
        t \in {-100, 0, 100}, m \in {2, 100}, n \in {0, 1, 60, 61},
        d \in {InvalidDate, DateNum(2024, 1, 31)} }

\* A schedule that charges the monthly installment in every row.
scheduleAmount_Flat(body, k) == body.monthlyPayment

\* The amount of installment k (from 0): the monthly installment; the last
\* one takes what is left of the total.
scheduleAmount(body, k) ==
    IF k < body.termMonths - 1 THEN body.monthlyPayment
    ELSE body.totalAmount - body.monthlyPayment * (body.termMonths - 1)

\* The rows of the schedule of plan planId, under the ids after the last
\* one in use.
scheduleOf(userId, planId, body) ==
    LET base == Cardinality(DOMAIN scheduledPayments)
    IN  [id \in (base + 1)..(base + body.termMonths) |->
            [userId |-> userId, planId |-> planId,
             amount |-> scheduleAmount(body, id - base - 1),
             dueDate |-> AddMonths(body.startDate, id - base - 1),
             status |-> "scheduled", paidAt |-> Null]]

\* The request validation: a positive total, a term in 1..60, a start
\* date that parses.
validPlanBody(body) ==
    /\ body.totalAmount > 0
    /\ body.termMonths >= MinTermMonths
    /\ body.termMonths <= MaxTermMonths
    /\ body.startDate # InvalidDate

\* A gateway that stores the plan and stops one row short of the schedule.
createPlanWithSchedule_Partial(plan, payments) ==
    /\ creditPlans' = creditPlans @@ plan
    /\ scheduledPayments' =
         scheduledPayments
         @@ [id \in DOMAIN payments \ {Cardinality(DOMAIN scheduledPayments)
                                           + Cardinality(DOMAIN payments)}
                |-> payments[id]]

\* storage.createPlanWithSchedule(plan, payments): the plan and all its
\* rows in one transaction.
createPlanWithSchedule(plan, payments) ==
    /\ creditPlans' = creditPlans @@ plan
    /\ scheduledPayments' = scheduledPayments @@ payments

\* The route: validate, then store the plan with its schedule for the
\* session's user; stored is whether the database transaction commits.
\* Nothing is written otherwise.
createPlanRoute(userId, body, stored) ==
    LET planId == Cardinality(DOMAIN creditPlans) + 1
    IN  IF validPlanBody(body) /\ stored
        THEN createPlanWithSchedule(
                 (planId :> [userId |-> userId,
                             planName |-> body.planName,
                             totalAmount |-> body.totalAmount,
                             monthlyPayment |-> body.monthlyPayment,
                             termMonths |-> body.termMonths,
                             startDate |-> body.startDate,
                             autopayEnabled |-> body.autopayEnabled,
                             status |-> body.status]),
                 scheduleOf(userId, planId, body))
        ELSE UNCHANGED <<creditPlans, scheduledPayments>>

createPlanSucceeds(body, stored) == validPlanBody(body) /\ stored

----------------------------------------------------------------------------
(* CreditPlans: actions *)

\* The model follows the creation of one plan.
NoPlanCreated == creditPlans = InitialPlans

\* "New Plan": the dialog opens.
OpenCreate ==
    /\ ~isCreateOpen
    /\ NoPlanCreated
    /\ isCreateOpen' = TRUE
    /\ UNCHANGED <<serverVars, clientVars, planForm, formErrors,
                   createMutation, appVars>>

\* The user edits one field of the form, at a time when no request is in
\* flight; once a submit has failed validation, the resolver runs again on
\* every change.
FillPlanForm(field, value) ==
    /\ isCreateOpen
    /\ createMutation.status # "pending"
    /\ value \in FieldValues(field)
    /\ planForm[field] # value
    /\ planForm' = [planForm EXCEPT ![field] = value]
    /\ formErrors' = IF formErrors = {} THEN {}
                     ELSE SchemaErrors([planForm EXCEPT ![field] = value])
    /\ UNCHANGED <<serverVars, clientVars, isCreateOpen, createMutation,
                   appVars>>

\* form.handleSubmit((data) => createMutation.mutate(data)): the resolver
\* runs first; mutate() is reached with valid data only. mutationFn then
\* computes the installment and the ISO date, and posts the body; a throw
\* in it fails the mutation before anything is sent.
SubmitPlanForm ==
    /\ isCreateOpen
    /\ createMutation.status # "pending"
    /\ formErrors' = SchemaErrors(planForm)
    /\ createMutation' =
         IF SchemaErrors(planForm) # {} THEN createMutation
         ELSE IF toISOStringThrows(planForm.startDate)
         THEN [status |-> "error", body |-> NoBody, error |-> "RangeError"]
         ELSE [status |-> "pending", body |-> PlanBody(planForm),
               error |-> ""]
    /\ UNCHANGED <<serverVars, clientVars, isCreateOpen, planForm, appVars>>

\* The server handles the posted body and the response settles the
\* mutation: onSuccess closes the dialog and resets the form, onError
\* leaves both.
PlanRequestDone(stored) ==
    /\ createMutation.status = "pending"
    /\ createPlanRoute(SessionUser, createMutation.body, stored)
    /\ IF createPlanSucceeds(createMutation.body, stored)
       THEN /\ createMutation' =
                 [status |-> "success", body |-> NoBody, error |-> ""]
            /\ isCreateOpen' = FALSE
            /\ planForm' = DefaultForm
            /\ formErrors' = {}
       ELSE /\ createMutation' =
                 [status |-> "error", body |-> NoBody, error |-> "response"]
            /\ UNCHANGED <<isCreateOpen, planForm, formErrors>>
    /\ UNCHANGED <<env, stripe, constructed, transactions, now, call,
                   delivered, clientVars, appVars>>

\* Another client of the API posts a body of its own, while the dialog is
\* closed and no request of the form is in flight.
DirectPlanRequest(body, stored) ==
    /\ NoPlanCreated
    /\ ~isCreateOpen
    /\ createMutation.status # "pending"
    /\ body \in DirectBodies
    /\ createPlanRoute(SessionUser, body, stored)
    /\ UNCHANGED <<env, stripe, constructed, transactions, now, call,
                   delivered, clientVars, planVars, appVars>>

\* The dialog is dismissed: setIsCreateOpen(false); form.reset().
CloseCreate ==
    /\ isCreateOpen
    /\ isCreateOpen' = FALSE
    /\ planForm' = DefaultForm
    /\ formErrors' = {}
    /\ UNCHANGED <<serverVars, clientVars, createMutation, appVars>>

Init ==
    /\ env \in [EnvNames -> BOOLEAN]
    /\ stripe = "null"
    /\ scheduledPayments = InitialPayments
    /\ creditPlans = InitialPlans
    /\ transactions = <<>>
    /\ now = 0
    /\ call = [w \in Workers |-> Idle]
    /\ delivered = 0
    /\ intents = <<>>
    /\ config = FALSE
    /\ paymentOpen = FALSE
    /\ paymentDetails = NoDetails
    /\ clientSecret = NoSecret
    /\ isLoading = FALSE
    /\ pending = <<>>
    /\ form = FormInit
    /\ submit = NoSubmit
    /\ timer = FALSE
    /\ isCreateOpen = FALSE
    /\ planForm = DefaultForm
    /\ formErrors = {}
    /\ createMutation = MutationIdle
    /\ constructed = 0
    /\ got = <<>>
    /\ handled = <<>>
    /\ tour = TourClosed
    /\ chat = ChatMounted

\* Concurrent deliveries; the clock stands still.
Next ==
    \E w \in Workers :
        \/ ProcessWebhook(w)
        \/ UpdateCompleted(w)
        \/ CreateTransaction(w)
        \/ UpdateFailed(w)

Spec == Init /\ [][Next]_vars

\* One delivery at a time, while time passes.
NextSerial ==
    \/ Tick
    \/ \E w \in SerialWorkers :
        \/ ProcessWebhook(w)
        \/ UpdateCompleted(w)
        \/ CreateTransaction(w)
        \/ UpdateFailed(w)

SpecSerial == Init /\ [][NextSerial]_vars

\* One delivery at a time, with a storage that can fail.
NextFaulty ==
    \E w \in SerialWorkers :
        \/ ProcessWebhook(w)
        \/ UpdateCompleted(w)
        \/ CreateTransaction(w)
        \/ UpdateFailed(w)
        \/ StorageThrows(w)

SpecFaulty == Init /\ [][NextFaulty]_vars

\* The server process: direct calls of getStripeClient, deliveries (which
\* call it through constructStripeEvent), and a changing environment.
NextStripe ==
    \/ GetStripeClientCall
    \/ \E name \in EnvNames, value \in BOOLEAN : SetEnv(name, value)
    \/ \E w \in SerialWorkers :
        \/ ProcessWebhook(w)
        \/ UpdateCompleted(w)
        \/ CreateTransaction(w)
        \/ UpdateFailed(w)

SpecStripe == Init /\ [][NextStripe]_vars

\* Requests to the routes guarded by isAuthenticated.
NextAuth == \E session \in Sessions : HandleRequest(session)

SpecAuth == Init /\ [][NextAuth]_vars

\* The guided tour of a new user.
NextTour ==
    \/ ShowTour
    \/ HandleNext
    \/ HandlePrev
    \/ HandleSkip
    \/ \E ok \in BOOLEAN : SaveSettled(ok)

SpecTour == Init /\ [][NextTour]_vars

\* The support chat page.
NextChat ==
    \/ \E list \in InitialLists : SessionsLoaded(list)
    \/ SessionsRefetched
    \/ \E id \in SessionIds : SelectSession(id)
    \/ CreateSession
    \/ \E ok \in BOOLEAN : SessionCreated(ok)
    \/ \E text \in Drafts : TypeMessage(text)
    \/ HandleSendMessage
    \/ \E ok \in BOOLEAN : SendSettled(ok)

SpecChat == Init /\ [][NextChat]_vars

\* One delivery at a time, of events whose ids are missing or malformed.
NextOdd ==
    \E w \in SerialWorkers :
        \/ ProcessOddWebhook(w)
        \/ UpdateCompleted(w)
        \/ CreateTransaction(w)
        \/ UpdateFailed(w)

SpecOdd == Init /\ [][NextOdd]_vars

\* The payment sheet of the signed-in user, and the deliveries of the events
\* of the intents it created.
NextSheet ==
    \/ \E id \in DOMAIN scheduledPayments : ClickPay(id)
    \/ ConfigLoaded
    \/ CloseSheet
    \/ \E i \in 1..Len(pending) : IntentCreated(i) \/ IntentFailed(i)
    \/ Submit
    \/ \E submitError \in BOOLEAN : ElementsSubmitted(submitError)
    \/ \E outcome \in ConfirmOutcomes : PaymentConfirmed(outcome)
    \/ \E ok \in BOOLEAN : PaymentReported(ok)
    \/ TimerFires
    \/ TryAgain
    \/ \E w \in SerialWorkers :
        \/ ProcessClientWebhook(w)
        \/ UpdateCompleted(w)
        \/ CreateTransaction(w)
        \/ UpdateFailed(w)

SpecSheet == Init /\ [][NextSheet]_vars

\* The create-plan dialog and the route behind it.
NextPlan ==
    \/ OpenCreate
    \/ \E field \in FormFields :
          \E value \in FieldValues(field) : FillPlanForm(field, value)
    \/ SubmitPlanForm
    \/ \E stored \in BOOLEAN : PlanRequestDone(stored)
    \/ \E body \in DirectBodies, stored \in BOOLEAN :
          DirectPlanRequest(body, stored)
    \/ CloseCreate

SpecPlan == Init /\ [][NextPlan]_vars

----------------------------------------------------------------------------
(* Properties *)

\* The number of Transaction rows in txs whose external reference is id.
TxnCountIn(txs, id) ==
    Cardinality({i \in 1..Len(txs) : txs[i].externalId = id})

TxnCount(id) == TxnCountIn(transactions, id)

IsSucceeded(e) == e.type = "payment_intent.succeeded"
IsFailed(e) == e.type = "payment_intent.payment_failed"

\* The event names a scheduled payment that exists.
NamesPayment(e) ==
    /\ TruthyNum(paymentIdOf(e))
    /\ paymentIdOf(e).v \in DOMAIN scheduledPayments

\* The event names a scheduled payment of the user in its metadata.
OwnsPayment(e) ==
    /\ NamesPayment(e)
    /\ scheduledPayments[paymentIdOf(e).v].userId = e.userId

\* The event names a scheduled payment of another user.
ForeignPayment(e) ==
    /\ NamesPayment(e)
    /\ TruthyStr(e.userId)
    /\ scheduledPayments[paymentIdOf(e).v].userId # e.userId

\* The event names a plan of the user in its metadata.
OwnsPlan(e) ==
    /\ TruthyNum(planIdOf(e))
    /\ planIdOf(e).v \in DOMAIN creditPlans
    /\ creditPlans[planIdOf(e).v].userId = e.userId

\* Slot w has just made a storage call in this step.
Stepped(w, pcs) == call[w].pc \in pcs /\ call'[w].pc # call[w].pc

AllSet == \A n \in EnvNames : env[n]

\* C1: replaying a succeeded event that carries user, plan and payment ids
\* (a Transaction for its intent id is already recorded when its
\* createTransaction runs) leaves exactly one Transaction row for that id,
\* and the scheduled payment it names stays completed.
C1_ReplayIsIdempotent ==
    [][\A w \in SerialWorkers :
        (/\ Stepped(w, {"create_transaction"})
         /\ OwnsPayment(call[w].event)
         /\ TxnCount(call[w].event.id) >= 1)
        => /\ TxnCountIn(transactions', call[w].event.id) = 1
           /\ scheduledPayments'[paymentIdOf(call[w].event).v].status
                = "completed"]_vars

\* C2: a scheduled payment that is completed stays completed, whatever
\* event is processed next.
C2_CompletedNeverRegresses ==
    [][\A id \in DOMAIN scheduledPayments :
        scheduledPayments[id].status = "completed"
        => scheduledPayments'[id].status = "completed"]_vars

\* C3: once every delivery has finished, a scheduled payment to which a
\* succeeded event was applied (paidAt is set) is completed, and each of the
\* intents naming it on behalf of its owner has at most one Transaction.
C3_RacingDeliveriesConverge ==
    (\A w \in Workers : Finished(w))
    => \A id \in DOMAIN scheduledPayments :
         scheduledPayments[id].paidAt # Null
         => /\ scheduledPayments[id].status = "completed"
            /\ \A pi \in Intents :
                 (/\ MetaNumber(pi.paymentId) = Num(id)
                  /\ pi.userId = scheduledPayments[id].userId)
                 => TxnCount(pi.id) <= 1

\* C4: a succeeded event that finds its scheduled payment failed completes
\* it, and with a plan id and no Transaction yet recorded for its intent it
\* ends with the payment completed and exactly one Transaction.
C4_FailedThenSucceeded ==
    [][\A w \in SerialWorkers :
        /\ (/\ Stepped(w, {"update_completed"})
            /\ OwnsPayment(call[w].event)
            /\ scheduledPayments[paymentIdOf(call[w].event).v].status
                 = "failed")
           => scheduledPayments'[paymentIdOf(call[w].event).v].status
                = "completed"
        /\ (/\ Stepped(w, {"create_transaction"})
            /\ call[w].prior = "failed"
            /\ TxnCount(call[w].event.id) = 0)
           => /\ call'[w].pc = "returned"
              /\ TxnCountIn(transactions', call[w].event.id) = 1
              /\ scheduledPayments'[paymentIdOf(call[w].event).v].status
                   = "completed"]_vars

C4_Witness ==
    \E w \in SerialWorkers :
        /\ call[w].pc = "returned"
        /\ IsSucceeded(call[w].event)
        /\ call[w].prior = "failed"
        /\ call[w].writes = 2
        /\ TxnCount(call[w].event.id) = 1
        /\ scheduledPayments[paymentIdOf(call[w].event).v].status
             = "completed"

\* constructStripeEvent cannot succeed for the arguments of slot w: the bytes
\* are not those that were signed, the signature was made with another key,
\* or a secret is missing from the environment.
Unverifiable(w) ==
    \/ call[w].payload.altered
    \/ call[w].signature.key # "whsec"
    \/ ~AllSet

\* C5: an invocation whose payload fails signature verification throws, has
\* no event, and makes no storage call.
C5_TamperedNoWrites ==
    \A w \in Workers :
        (call[w].pc # "idle" /\ call[w].payload.isBuffer /\ Unverifiable(w))
        => /\ call[w].pc = "threw"
           /\ call[w].verify = "failed"
           /\ call[w].event = NoEvent
           /\ call[w].writes = 0

C5_Witness ==
    \E w \in Workers :
        /\ AllSet
        /\ call[w].pc = "threw"
        /\ call[w].payload.isBuffer
        /\ call[w].payload.altered
        /\ call[w].signature.key = "whsec"
        /\ call[w].verify = "failed"
        /\ \E v \in Workers : call[v].writes > 0

\* The payload of slot w is not the raw body: not a Buffer, or a Buffer of
\* other bytes than those signed.
NotRaw(w) == ~call[w].payload.isBuffer \/ call[w].payload.altered

\* C6 as stated: a payload that is not the raw byte buffer is rejected
\* before signature verification is attempted, with no storage call.
C6_NotRawRejectedBeforeVerification ==
    \A w \in Workers :
        (call[w].pc # "idle" /\ NotRaw(w))
        => /\ call[w].pc = "threw"
           /\ call[w].verify = "none"
           /\ call[w].writes = 0

\* C6 amended: a payload that is not the raw byte buffer is rejected with no
\* storage call; the rejection comes before signature verification exactly
\* when the payload is not a Buffer, and from the verification itself when
\* it is a Buffer of other bytes.
C6_NotRawRejected ==
    \A w \in Workers :
        (call[w].pc # "idle" /\ NotRaw(w))
        => /\ call[w].pc = "threw"
           /\ call[w].event = NoEvent
           /\ call[w].writes = 0
           /\ call[w].verify =
                IF call[w].payload.isBuffer THEN "failed" ELSE "none"

C6_Witness ==
    \E w \in Workers :
        /\ AllSet
        /\ call[w].pc = "threw"
        /\ ~call[w].payload.isBuffer
        /\ call[w].signature.key = "whsec"
        /\ call[w].verify = "none"
        /\ stripe = "null"

\* C7: the update of a succeeded or failed event that names a scheduled
\* payment of another user than the one in its metadata changes no row, and
\* the handler goes on without throwing.
C7_ForeignPaymentUntouched ==
    [][\A w \in Workers :
        (/\ Stepped(w, {"update_completed", "update_failed"})
         /\ ForeignPayment(call[w].event))
        => /\ scheduledPayments' = scheduledPayments
           /\ call'[w].pc \in {"create_transaction", "returned"}]_vars

C7_Witness ==
    \E w \in Workers :
        /\ call[w].pc = "returned"
        /\ IsFailed(call[w].event)
        /\ ForeignPayment(call[w].event)
        /\ call[w].writes = 1
        /\ scheduledPayments = InitialPayments

\* C8: a succeeded event whose plan id names no plan of the user in its
\* metadata ends without a Transaction row for its intent.
C8_ForeignPlanNoTransaction ==
    \A w \in Workers :
        (/\ call[w].pc = "returned"
         /\ IsSucceeded(call[w].event)
         /\ TruthyStr(call[w].event.userId)
         /\ TruthyNum(planIdOf(call[w].event))
         /\ ~OwnsPlan(call[w].event))
        => TxnCount(call[w].event.id) = 0

C10_PaidAtIsEventTime ==
    \A w \in SerialWorkers :
        (/\ call[w].pc \in {"create_transaction", "returned"}
         /\ IsSucceeded(call[w].event)
         /\ OwnsPayment(call[w].event)
         /\ call[w].writes >= 1)
        => /\ scheduledPayments[paymentIdOf(call[w].event).v].status
                = "completed"
           /\ scheduledPayments[paymentIdOf(call[w].event).v].paidAt
                = call[w].event.created

\* The invocation in slot w has returned from a verified event.
Returned(w) == call[w].pc = "returned" /\ call[w].verify = "ok"

\* C11: a succeeded event with a userId and a plan id makes processWebhook
\* append exactly one Transaction, owned by that userId, of type "payment",
\* with the event's plan id, the intent's amount and the intent's id as
\* external reference; a succeeded event without a plan id never reaches
\* createTransaction, with or without a scheduled-payment id.
C11_SucceededRecordsTransaction ==
    [][\A w \in Workers :
         LET e == call[w].event
             after == call'[w].event
         IN  /\ Stepped(w, {"create_transaction"}) =>
                  /\ IsSucceeded(e)
                  /\ TruthyStr(e.userId)
                  /\ TruthyNum(MetaNumber(e.planId))
                  /\ Len(transactions') = Len(transactions) + 1
                  /\ SubSeq(transactions', 1, Len(transactions)) = transactions
                  /\ transactions'[Len(transactions')].userId = e.userId
                  /\ transactions'[Len(transactions')].type = "payment"
                  /\ transactions'[Len(transactions')].planId
                        = Number(e.planId).v
                  /\ transactions'[Len(transactions')].amount = e.amount
                  /\ transactions'[Len(transactions')].externalId = e.id
                  /\ call'[w].pc = "returned"
             /\ (transactions' # transactions) =>
                  \E v \in Workers : Stepped(v, {"create_transaction"})
             /\ (call'[w].pc = "create_transaction") =>
                  TruthyNum(MetaNumber(after.planId))
             /\ ( /\ call'[w].pc = "returned"
                  /\ call'[w].verify = "ok"
                  /\ IsSucceeded(after)
                  /\ TruthyStr(after.userId) ) =>
                  IF TruthyNum(MetaNumber(after.planId))
                  THEN TxnCountIn(transactions', after.id) >= 1
                  ELSE TxnCountIn(transactions', after.id) = 0
       ]_vars

\* One delivery with a plan id and no payment id has recorded its one
\* transaction; another, with a payment id and no plan id, has completed the
\* payment and recorded none.
C11_Witness ==
    \E w, v \in Workers :
        /\ Returned(w) /\ IsSucceeded(call[w].event)
        /\ TruthyStr(call[w].event.userId)
        /\ TruthyNum(planIdOf(call[w].event))
        /\ call[w].event.paymentId = Absent
        /\ TxnCount(call[w].event.id) = 1
        /\ Returned(v) /\ IsSucceeded(call[v].event)
        /\ call[v].event.planId = Absent
        /\ OwnsPayment(call[v].event)
        /\ call[v].writes = 1
        /\ TxnCount(call[v].event.id) = 0

\* C12: a payment_failed event with a userId and a scheduled-payment id
\* makes one storage call: the owner-scoped update that sets the row's
\* status to failed and leaves its paidAt (and everything else) as it was;
\* no Transaction is created, whatever else the metadata carries.
C12_FailedMarksPaymentFailed ==
    [][\A w \in Workers :
         LET e == call[w].event
             after == call'[w].event
         IN  /\ Stepped(w, {"update_failed"}) =>
                  /\ IsFailed(e)
                  /\ transactions' = transactions
                  /\ creditPlans' = creditPlans
                  /\ call'[w].pc = "returned"
                  /\ DOMAIN scheduledPayments' = DOMAIN scheduledPayments
                  /\ \A id \in DOMAIN scheduledPayments :
                       scheduledPayments'[id] =
                         IF id = Number(e.paymentId).v
                            /\ scheduledPayments[id].userId = e.userId
                         THEN [scheduledPayments[id] EXCEPT !.status = "failed"]
                         ELSE scheduledPayments[id]
             /\ IsFailed(after) =>
                  call'[w].pc \notin {"create_transaction", "update_completed"}
             /\ ( /\ call'[w].pc = "returned"
                  /\ call'[w].verify = "ok"
                  /\ IsFailed(after)
                  /\ TruthyStr(after.userId)
                  /\ TruthyNum(MetaNumber(after.paymentId)) ) =>
                  call'[w].writes = 1
       ]_vars

\* A failed event that also carries a plan id has marked a payment failed
\* that an earlier succeeded event had completed: paidAt is still set and no
\* transaction exists for the intent.
C12_Witness ==
    \E w \in Workers :
        /\ Returned(w) /\ IsFailed(call[w].event)
        /\ OwnsPayment(call[w].event)
        /\ TruthyNum(planIdOf(call[w].event))
        /\ call[w].writes = 1
        /\ scheduledPayments[paymentIdOf(call[w].event).v].status = "failed"
        /\ scheduledPayments[paymentIdOf(call[w].event).v].paidAt # Null
        /\ TxnCount(call[w].event.id) = 0

\* C13: a verified event whose metadata has no userId is acknowledged at
\* once, for succeeded and failed events alike: the invocation returns
\* without having called updateScheduledPayment or createTransaction, even
\* when plan and scheduled-payment ids are present.
C13_NoUserIdNoAction ==
    \A w \in Workers :
        (call[w].verify = "ok" /\ ~TruthyStr(call[w].event.userId)) =>
            /\ call[w].pc = "returned"
            /\ call[w].writes = 0

\* Both slots have acknowledged an event without userId that names the plan
\* and the payment, one succeeded and one failed; no row has changed.
C13_Witness ==
    \E w, v \in Workers :
        /\ Returned(w) /\ IsSucceeded(call[w].event)
        /\ Returned(v) /\ IsFailed(call[v].event)
        /\ \A x \in {w, v} :
             /\ call[x].event.userId = Absent
             /\ TruthyNum(planIdOf(call[x].event))
             /\ NamesPayment(call[x].event)
             /\ call[x].writes = 0
        /\ scheduledPayments = InitialPayments
        /\ transactions = <<>>

\* C14: a verified event of a type other than payment_intent.succeeded and
\* payment_intent.payment_failed is acknowledged at once: the invocation
\* returns without a storage call, so no Plan, ScheduledPayment or
\* Transaction row is touched by it.
C14_OtherTypesAcknowledged ==
    \A w \in Workers :
        ( /\ call[w].verify = "ok"
          /\ ~IsSucceeded(call[w].event)
          /\ ~IsFailed(call[w].event) ) =>
            /\ call[w].pc = "returned"
            /\ call[w].writes = 0
            /\ creditPlans = InitialPlans

\* An event of another type, carrying the owner's userId, plan and payment
\* ids, has been acknowledged and the rows are as they were.
C14_Witness ==
    \E w \in Workers :
        /\ Returned(w)
        /\ call[w].event.type = "charge.refunded"
        /\ OwnsPayment(call[w].event)
        /\ OwnsPlan(call[w].event)
        /\ call[w].writes = 0
        /\ scheduledPayments = InitialPayments
        /\ transactions = <<>>

\* C15: no step of the webhook handler changes a ScheduledPayment's amount
\* or dueDate (nor its owner or plan), and no row appears or disappears:
\* the patches it writes have the keys status and paidAt only.
C15_AmountAndDueDateFixed ==
    [][/\ DOMAIN scheduledPayments' = DOMAIN scheduledPayments
       /\ \A id \in DOMAIN scheduledPayments :
            /\ scheduledPayments'[id].amount = scheduledPayments[id].amount
            /\ scheduledPayments'[id].dueDate = scheduledPayments[id].dueDate
            /\ scheduledPayments'[id].userId = scheduledPayments[id].userId
            /\ scheduledPayments'[id].planId = scheduledPayments[id].planId
       /\ \A w \in SerialWorkers :
            /\ Stepped(w, {"update_completed"}) =>
                 DOMAIN CompletedPatch(call[w].paidAt) = {"status", "paidAt"}
            /\ Stepped(w, {"update_failed"}) =>
                 DOMAIN FailedPatch = {"status"}
      ]_vars

\* A payment completed after time has passed, and later marked failed: its
\* amount and due date are those of the schedule.
C15_Witness ==
    \E id \in DOMAIN scheduledPayments :
        /\ scheduledPayments[id].status = "failed"
        /\ scheduledPayments[id].paidAt # Null
        /\ scheduledPayments[id].paidAt > scheduledPayments[id].dueDate
        /\ scheduledPayments[id].amount = InitialPayments[id].amount
        /\ scheduledPayments[id].dueDate = InitialPayments[id].dueDate

\* The plans created after the initial state, and the schedule rows of a
\* plan.
CreatedPlans == DOMAIN creditPlans \ DOMAIN InitialPlans
RowsOf(p) == {id \in DOMAIN scheduledPayments : scheduledPayments[id].planId = p}

RECURSIVE SumAmounts(_)
SumAmounts(ids) ==
    IF ids = {} THEN 0
    ELSE LET id == CHOOSE x \in ids : TRUE
         IN  scheduledPayments[id].amount + SumAmounts(ids \ {id})

\* A positive total, a term in 1..60 and a start date that parsed.
ValidInput(r) ==
    /\ r.totalAmount >= 1
    /\ r.termMonths \in 1..60
    /\ r.startDate >= 0

\* C16: every created plan (its total positive, its term in 1..60) has
\* exactly term schedule rows, their amounts sum to exactly the total, the
\* k-th row (k from 0) is due in the k-th calendar month after the start
\* month, on the start day or on the last day of a shorter month, and the
\* due dates are strictly increasing along the rows.
C16_ScheduleMatchesPlan ==
    \A p \in CreatedPlans :
        LET plan == creditPlans[p]
            rows == RowsOf(p)
            first == CHOOSE id \in rows : \A other \in rows : id <= other
        IN  /\ plan.totalAmount >= 1
            /\ plan.termMonths \in 1..60
            /\ Cardinality(rows) = plan.termMonths
            /\ SumAmounts(rows) = plan.totalAmount
            /\ rows = first..(first + plan.termMonths - 1)
            /\ \A id \in rows :
                 LET due == scheduledPayments[id].dueDate
                     y == MonthIndex(due) \div 12
                     m == (MonthIndex(due) % 12) + 1
                 IN  /\ MonthIndex(due) = MonthIndex(plan.startDate) + (id - first)
                     /\ \/ DayOfMonth(due) = DayOfMonth(plan.startDate)
                        \/ /\ DayOfMonth(due) < DayOfMonth(plan.startDate)
                           /\ DayOfMonth(due) = DaysInMonth(y, m)
            /\ \A i, j \in rows :
                 i < j => scheduledPayments[i].dueDate
                            < scheduledPayments[j].dueDate

\* The plan of 50000 over 12 months from 2024-01-31: eleven rows of 4167,
\* a last one of 4163, the second due on 2024-02-29.
C16_Witness ==
    \E p \in CreatedPlans :
        /\ creditPlans[p].totalAmount = 50000
        /\ creditPlans[p].termMonths = 12
        /\ Cardinality(RowsOf(p)) = 12
        /\ Cardinality({id \in RowsOf(p) :
                          scheduledPayments[id].amount = 4167}) = 11
        /\ \E id \in RowsOf(p) : scheduledPayments[id].amount = 4163
        /\ \E id \in RowsOf(p) :
             scheduledPayments[id].dueDate = DateNum(2024, 2, 29)

\* C17: the monthlyPayment of a request the form has sent is the least
\* integer whose product with the term reaches the total, that is
\* ceiling(total / term): monthly * term >= total > (monthly - 1) * term;
\* for total 50000 and term 12 it is 4167.
C17_MonthlyIsCeiling ==
    createMutation.status = "pending" =>
        LET body == createMutation.body
        IN  /\ body.monthlyPayment * body.termMonths >= body.totalAmount
            /\ (body.monthlyPayment - 1) * body.termMonths < body.totalAmount
            /\ (body.totalAmount = 50000 /\ body.termMonths = 12) =>
                  body.monthlyPayment = 4167

\* The request for 50000 over 12 months is in flight with 4167.
C17_Witness ==
    /\ createMutation.status = "pending"
    /\ createMutation.body.totalAmount = 50000
    /\ createMutation.body.termMonths = 12
    /\ createMutation.body.monthlyPayment = 4167

\* C18: a total that is not positive, a term outside 1..60 or a start date
\* that does not parse never gets as far as a stored record: every request
\* the form has in flight carries valid values, every plan record created
\* carries valid values, every schedule row belongs to a plan record, and a
\* mutation has succeeded only if a plan was created.
C18_InvalidInputRejected ==
    /\ createMutation.status = "pending" => ValidInput(createMutation.body)
    /\ \A p \in CreatedPlans : ValidInput(creditPlans[p])
    /\ \A id \in DOMAIN scheduledPayments :
         scheduledPayments[id].planId \in DOMAIN creditPlans
    /\ createMutation.status = "success" => CreatedPlans # {}

\* A form with a zero total and a term of 61 has been refused by the
\* resolver, after a submit with an unparseable start date had failed in
\* mutationFn; nothing has been stored.
C18_Witness ==
    /\ formErrors = {"totalAmount", "termMonths"}
    /\ planForm.totalAmount <= 0
    /\ planForm.termMonths > 60
    /\ planForm.startDate = "soon"
    /\ createMutation.status = "error"
    /\ createMutation.error = "RangeError"
    /\ creditPlans = InitialPlans
    /\ scheduledPayments = InitialPayments

\* C19: a plan record and its schedule are stored together or not at all:
\* in every state each plan has exactly termMonths schedule rows and each
\* row has its plan; a step that changes one of the two tables changes
\* both, and a creation that fails leaves both as they were.
C19_PlanCreationAtomic ==
    [][/\ \A p \in DOMAIN creditPlans' :
            Cardinality({id \in DOMAIN scheduledPayments' :
                           scheduledPayments'[id].planId = p})
              = creditPlans'[p].termMonths
       /\ \A id \in DOMAIN scheduledPayments' :
            scheduledPayments'[id].planId \in DOMAIN creditPlans'
       /\ (creditPlans' # creditPlans) <=> (scheduledPayments' # scheduledPayments)
       /\ (createMutation.status = "pending" /\ createMutation'.status = "error")
            => /\ creditPlans' = creditPlans
               /\ scheduledPayments' = scheduledPayments
      ]_vars

\* A valid request has failed at the server: the mutation carries the
\* response's error and the tables hold the initial plan with its one row.
C19_Witness ==
    /\ createMutation.status = "error"
    /\ createMutation.error = "response"
    /\ SchemaErrors(planForm) = {}
    /\ planForm.termMonths = 60
    /\ creditPlans = InitialPlans
    /\ scheduledPayments = InitialPayments

\* C20: when a create-payment-intent request fails (it leaves the requests
\* in flight and no intent was created), the dialog is closed by the catch
\* block, the checkout form is not shown, clientSecret is empty or what it
\* was (the failed attempt stores none), and no intent, ScheduledPayment,
\* Transaction or Plan row is created or changed.
C20_IntentCreationFailsClosed ==
    [][(Len(pending') < Len(pending) /\ intents' = intents) =>
          /\ ~paymentOpen'
          /\ ~FormShown(paymentDetails', paymentOpen', config', isLoading',
                        clientSecret')
          /\ clientSecret' \in {NoSecret, clientSecret}
          /\ paymentOpen => clientSecret' = NoSecret
          /\ scheduledPayments' = scheduledPayments
          /\ transactions' = transactions
          /\ creditPlans' = creditPlans
      ]_vars

\* The only request made has failed: the configuration is loaded, the sheet
\* is mounted and closed, nothing is in flight, no intent and no secret
\* exist, and the rows are as they were.
C20_Witness ==
    /\ config
    /\ paymentDetails # NoDetails
    /\ ~paymentOpen
    /\ pending = <<>>
    /\ intents = <<>>
    /\ clientSecret = NoSecret
    /\ ~isLoading
    /\ scheduledPayments = InitialPayments
    /\ transactions = <<>>

\* C21: a succeeded event completes a scheduled payment only when the
\* intent's amount equals the amount of that scheduled payment: every
\* update_completed step on a row of the event's user is made for an event
\* whose amount is the row's amount.
C21_CompletesOnlyOnMatchingAmount ==
    [][\A w \in SerialWorkers :
         ( /\ Stepped(w, {"update_completed"})
           /\ OwnsPayment(call[w].event)
           /\ scheduledPayments'[paymentIdOf(call[w].event).v].status
                = "completed" ) =>
             call[w].event.amount
               = scheduledPayments[paymentIdOf(call[w].event).v].amount
      ]_vars

\* C22: the secret the checkout form uses comes from a request made during
\* the current opening of the sheet: at the step that opens the sheet no
\* request of this opening can have answered yet, so the sheet opens holding
\* no client secret and without the checkout form.
C22_SecretFromCurrentOpening ==
    [][(~paymentOpen /\ paymentOpen') =>
          /\ clientSecret' = NoSecret
          /\ ~FormShown(paymentDetails', paymentOpen', config', isLoading',
                        clientSecret')
      ]_vars

\* The event carries a userId, a payment id and a plan id.
HasAllIds(e) ==
    /\ TruthyStr(e.userId)
    /\ TruthyNum(MetaNumber(e.paymentId))
    /\ TruthyNum(MetaNumber(e.planId))

\* C23: for a succeeded event with userId, paymentId and planId the update
\* has been made when createTransaction starts; an update that throws ends
\* the invocation with no Transaction created; and an invocation that has
\* returned normally has issued both writes.
C23_UpdateBeforeTransaction ==
    [][\A w \in SerialWorkers :
         LET e == call[w].event
         IN  /\ (call[w].pc = "create_transaction" /\ HasAllIds(e)) =>
                  call[w].writes = 1
             /\ (call[w].pc = "update_completed" /\ HasAllIds(e)) =>
                  /\ call[w].writes = 0
                  /\ transactions' = transactions
             /\ ( /\ call[w].pc = "update_completed"
                  /\ call'[w].pc = "threw" ) =>
                  /\ transactions' = transactions
                  /\ scheduledPayments' = scheduledPayments
                  /\ Finished(w)'
             /\ ( /\ call'[w].pc = "returned"
                  /\ call'[w].verify = "ok"
                  /\ IsSucceeded(call'[w].event)
                  /\ HasAllIds(call'[w].event) ) =>
                  call'[w].writes = 2
      ]_vars

\* The update of a succeeded event with all three ids has thrown: the
\* invocation is over, the payment is still scheduled and no transaction
\* exists.
C23_Witness ==
    \E w \in SerialWorkers :
        /\ call[w].pc = "threw"
        /\ call[w].verify = "ok"
        /\ IsSucceeded(call[w].event)
        /\ HasAllIds(call[w].event)
        /\ OwnsPayment(call[w].event)
        /\ call[w].writes = 0
        /\ scheduledPayments = InitialPayments
        /\ transactions = <<>>

\* The metadata strings that name a row id.
RowIds == {"1", "2"}

\* C24: storage is never called with an id that is 0 or NaN: the handler
\* awaits an update only for an event whose paymentId metadata is a row id,
\* and createTransaction only for one whose planId metadata is; a missing,
\* empty, "0" or non-numeric id skips its write, and the write of the other
\* id, if that is a row id, has been made when the handler returns.
C24_NoCallWithZeroOrNaN ==
    \A w \in SerialWorkers :
        LET e == call[w].event
            made == call[w].pc = "returned" /\ call[w].verify = "ok"
                    /\ TruthyStr(e.userId)
        IN  /\ call[w].pc \in {"update_completed", "update_failed"} =>
                 e.paymentId \in RowIds
            /\ call[w].pc = "create_transaction" => e.planId \in RowIds
            /\ (made /\ IsSucceeded(e)) =>
                 /\ call[w].writes
                      = (IF e.paymentId \in RowIds THEN 1 ELSE 0)
                        + (IF e.planId \in RowIds THEN 1 ELSE 0)
                 /\ e.planId \notin RowIds => TxnCount(e.id) = 0
                 /\ e.planId \in RowIds => TxnCount(e.id) >= 1
                 /\ (e.paymentId \in RowIds /\ OwnsPayment(e)) =>
                      scheduledPayments[Number(e.paymentId).v].paidAt # Null
            /\ (made /\ IsFailed(e)) =>
                 call[w].writes = IF e.paymentId \in RowIds THEN 1 ELSE 0

\* A succeeded event with planId "0" and paymentId "1" has completed the
\* payment and recorded no transaction, after one with planId "1" and a
\* paymentId that is not a number had recorded its transaction.
C24_Witness ==
    \E w \in SerialWorkers :
        /\ Returned(w) /\ IsSucceeded(call[w].event)
        /\ call[w].event.planId = "0"
        /\ call[w].event.paymentId = "1"
        /\ call[w].writes = 1
        /\ scheduledPayments[1].status = "completed"
        /\ TxnCount(call[w].event.id) = 0
        /\ TxnCount("pi_24") = 1

\* C25: paymentStatus becomes 'succeeded' only at the step where the
\* confirm-payment request resolves, which is awaited only after
\* stripe.confirmPayment returned an intent with status 'succeeded', and on
\* its success branch (the one that arms the timer); a run of handleSubmit
\* that ends at elements.submit or at stripe.confirmPayment, or whose
\* confirm-payment request fails, leaves 'failed' or 'idle'; and when a run
\* ends isProcessing is false.
C25_SucceededOnlyWhenConfirmed ==
    [][/\ (form'.paymentStatus = "succeeded" /\ form.paymentStatus # "succeeded")
            => /\ submit.pc = "confirm-payment"
               /\ submit'.pc = "none"
               /\ timer'
       /\ ( /\ submit.pc \in {"elements.submit", "stripe.confirmPayment"}
            /\ submit'.pc = "none" )
            => form'.paymentStatus \in {"failed", "idle"}
       /\ (submit.pc # "none" /\ submit'.pc = "none")
            => /\ ~form'.isProcessing
               /\ form'.paymentStatus \in {"succeeded", "failed", "idle"}
       /\ (submit'.pc = "confirm-payment" /\ submit.pc # "confirm-payment")
            => submit.pc = "stripe.confirmPayment"
      ]_vars

\* A run of handleSubmit has ended in success on a form still shown: the
\* status is 'succeeded', nothing is processing and the timer is armed.
C25_Witness ==
    /\ FormShown(paymentDetails, paymentOpen, config, isLoading, clientSecret)
    /\ form.paymentStatus = "succeeded"
    /\ ~form.isProcessing
    /\ submit.pc = "none"
    /\ timer


\* C26: at most one Stripe client is ever constructed; once the cache holds
\* a client no step replaces or empties it and no further client is
\* constructed; a call of getStripeClient returns the cached client when
\* there is one, constructs and returns one when the cache is empty and
\* STRIPE_SECRET_KEY is set, and throws, leaving the cache empty, only when
\* the cache is empty and the key is missing.
C26_OneClientPerProcess ==
    [][/\ constructed' <= 1
       /\ stripe # "null" => (stripe' = stripe /\ constructed' = constructed)
       /\ (stripe' # "null") <=> (constructed' = 1)
       /\ Len(got') = Len(got) + 1 =>
            LET r == got'[Len(got')]
            IN  /\ r = "threw" =>
                     /\ stripe = "null" /\ ~env["STRIPE_SECRET_KEY"]
                     /\ stripe' = "null"
                     /\ constructed' = constructed
                /\ r = "client" => stripe' = "client"
                /\ stripe = "client" => r = "client"
                /\ (stripe = "null" /\ env["STRIPE_SECRET_KEY"]) =>
                     /\ r = "client"
                     /\ constructed' = constructed + 1
      ]_vars

\* A call threw for want of the key; after the key was set the next call
\* constructed the client and the one after it got the same client.
C26_Witness ==
    /\ got = <<"threw", "client", "client">>
    /\ constructed = 1
    /\ stripe = "client"


\* C27: for every request isAuthenticated handled, exactly one of two
\* things happened: the session had no userId (no session, no userId, or
\* an empty one), one 401 response was sent and next was not called; or
\* the session had a userId, next was called exactly once and no response
\* was sent.
C27_RespondsOrCallsNext ==
    \A i \in 1..Len(handled) :
        LET h == handled[i]
            noUserId == \/ ~h.session.session
                        \/ h.session.userId \in {Absent, ""}
        IN  IF noUserId
            THEN /\ Len(h.result.responses) = 1
                 /\ h.result.responses[1].status = Unauthorized
                 /\ h.result.nextCalls = 0
            ELSE /\ h.result.responses = <<>>
                 /\ h.result.nextCalls = 1

\* A request without a session, one whose session has no userId and one
\* of a logged-in user have been handled.
C27_Witness ==
    /\ Len(handled) = 3
    /\ ~handled[1].session.session
    /\ handled[2].session.session /\ handled[2].session.userId = Absent
    /\ handled[3].session.userId = "u1"
    /\ handled[3].result.nextCalls = 1
    /\ handled[1].result.nextCalls = 0


\* C28: currentStep stays within 0..tourSteps.length-1: Back at step 0 and
\* Next at the last step leave it where it is; Next on the last step and
\* Skip (which Close also runs) each start one run of handleComplete, and
\* every run that has settled, with the save succeeding or failing, has
\* called onComplete exactly once: onComplete is called only when a save
\* settles, once per settled save.
C28_StepInRangeAndCompleteOnce ==
    [][/\ tour'.currentStep \in 0..(TourLength - 1)
       /\ (HandlePrev /\ tour.currentStep = 0) => tour'.currentStep = 0
       /\ (HandleNext /\ tour.currentStep = TourLength - 1) =>
            /\ tour'.currentStep = tour.currentStep
            /\ tour'.saving = tour.saving + 1
            /\ tour'.onCompleteCalls = tour.onCompleteCalls
       /\ HandleSkip =>
            /\ tour'.currentStep = tour.currentStep
            /\ tour'.saving = tour.saving + 1
            /\ tour'.onCompleteCalls = tour.onCompleteCalls
       /\ tour'.saving < tour.saving =>
            /\ tour'.saving = tour.saving - 1
            /\ tour'.onCompleteCalls = tour.onCompleteCalls + 1
            /\ ~tour'.showTour
       /\ tour'.onCompleteCalls # tour.onCompleteCalls =>
            /\ tour'.saving = tour.saving - 1
            /\ tour'.onCompleteCalls = tour.onCompleteCalls + 1
       /\ tour'.onCompleteCalls + tour'.saving = tour'.completes
      ]_vars

\* Next on the last step started a save that failed: the profile is not
\* marked, onComplete has been called once and the tour is closed.
C28_Witness ==
    /\ tour.currentStep = TourLength - 1
    /\ tour.completes = 1
    /\ tour.saving = 0
    /\ tour.onCompleteCalls = 1
    /\ ~tour.tourCompleted
    /\ ~tour.showTour


\* C29: a POST of a message is issued only when a session is selected
\* (activeSessionId is set) and the trimmed draft is not empty; it goes to
\* the selected session and carries the trimmed draft; the draft changes
\* only by typing or by being emptied when a send succeeds, and a failed
\* send leaves it; a pick of the user selects the picked session, and a
\* selected session is replaced only by a pick or by the creation of a new
\* chat, never by the automatic selection, which selects the first active
\* session of the list while none is selected.
C29_SendAndAutoSelect ==
    [][/\ (chat'.posts # chat.posts \/ chat'.request # chat.request) =>
            /\ SessionSelected(chat.activeSessionId)
            /\ Trim(chat.message) # <<>>
            /\ chat'.posts = chat.posts + 1
            /\ chat'.request = [sessionId |-> chat.activeSessionId,
                                content |-> Trim(chat.message)]
            /\ chat'.message = chat.message
       /\ chat'.message # chat.message =>
            \/ TypeMessage(chat'.message)
            \/ SendSettled(TRUE) /\ chat'.message = <<>>
       /\ SendSettled(FALSE) => chat'.message = chat.message
       /\ \A id \in SessionIds :
            SelectSession(id) => chat'.activeSessionId = id
       /\ chat'.activeSessionId # chat.activeSessionId =>
            \/ \E id \in SessionIds : SelectSession(id)
            \/ SessionCreated(TRUE)
            \/ /\ ~SessionSelected(chat.activeSessionId)
               /\ \E i \in 1..Len(chat'.sessions.list) :
                    /\ chat'.sessions.list[i].status = "active"
                    /\ chat'.sessions.list[i].id = chat'.activeSessionId
                    /\ \A j \in 1..(i - 1) :
                         chat'.sessions.list[j].status # "active"
      ]_vars

\* The new chat is listed and selected, and the send of a draft with a
\* blank before the text is pending for it with the trimmed text.
C29_Witness ==
    /\ chat.sessions.list = <<ClosedSession, AiSession, NewSession>>
    /\ chat.activeSessionId = NewSession.id
    /\ chat.sending
    /\ chat.message = <<" ", "a">>
    /\ chat.request = [sessionId |-> NewSession.id, content |-> <<"a">>]

====
